---- MODULE Spec2Model ----
(***************************************************************************)
(* Model of api/app_docker.py: the whitelist parser, the status            *)
(* normalizer, the status aggregator (GET /api/status), the action         *)
(* dispatcher (POST /api/service/<key>/<action>) and the metrics endpoint  *)
(* (GET /api/sysinfo), together with the container runtime they talk to.   *)
(*                                                                         *)
(* Strings the code takes apart character by character (the SB_ALLOWED     *)
(* value, container names, service keys) are sequences of one-character    *)
(* strings.  Strings the code only compares (lifecycle states, health      *)
(* values, action names) are TLA+ strings.                                 *)
(***************************************************************************)
EXTENDS Integers, Sequences, FiniteSets, TLC

VARIABLES
    envValue,    \* os.environ.get("SB_ALLOWED"): a string, or NoEnv when unset
    ALLOWED,     \* the module-level whitelist, built once at import
    SERVICES,    \* the module-level registry: key -> [container |-> name]
    present,     \* the container names that exist in the runtime right now
    pc,          \* where the request in flight stands
    req,         \* the request in flight: route, key, action, locals
    calls,       \* the runtime calls the request in flight has made so far
    response,    \* the HTTP response of the request, once pc = "done"
    nState,      \* normalizer harness: lifecycle state argument
    nHealth,     \* normalizer harness: health argument
    nResult      \* normalizer harness: result, Pending until computed

vars == <<envValue, ALLOWED, SERVICES, present, pc, req, calls, response,
          nState, nHealth, nResult>>

-----------------------------------------------------------------------------
(* Python values *)

\* Python's None, for values that are otherwise TLA+ strings.
None == "<None>"

\* The SB_ALLOWED variable is not set (os.environ.get returns None).
NoEnv == <<None>>

\* bool(x) for an optional string: None and "" are falsy.
Truthy(x) == x /= None /\ x /= ""

\* bool(env_value) for the optional SB_ALLOWED value.
TruthyStr(s) == s /= NoEnv /\ s /= <<>>

\* The characters str.strip() removes.
Whitespace == {" ", "\t"}

-----------------------------------------------------------------------------
(* Names *)

qbittorrent == <<"q","b","i","t","t","o","r","r","e","n","t">>
prowlarr == <<"p","r","o","w","l","a","r","r">>
sonarr == <<"s","o","n","a","r","r">>
radarr == <<"r","a","d","a","r","r">>
joal == <<"j","o","a","l">>
syncthing == <<"s","y","n","c","t","h","i","n","g">>
caddy == <<"c","a","d","d","y">>
auth == <<"a","u","t","h">>
vpn == <<"v","p","n">>
ghost == <<"g","h","o","s","t">>

\* The default of _parse_allowed, as one string.
DefaultAllowedRaw ==
    qbittorrent \o <<",">> \o prowlarr \o <<",">> \o sonarr \o <<",">> \o
    radarr \o <<",">> \o joal \o <<",">> \o syncthing \o <<",">> \o
    caddy \o <<",">> \o auth \o <<",">> \o vpn

\* The keys of SERVICES in the order the dict literal inserts them.
ServiceOrder ==
    <<qbittorrent, prowlarr, sonarr, radarr, joal, syncthing, caddy, auth, vpn>>

\* The SERVICES dict literal.
ServicesTable ==
    [k \in {ServiceOrder[i] : i \in 1..Len(ServiceOrder)} |-> [container |-> k]]

-----------------------------------------------------------------------------
(* _parse_allowed *)

RECURSIVE Split(_)
\* raw.split(","): the pieces between commas, empty pieces included.
Split(s) ==
    IF \A i \in 1..Len(s) : s[i] /= ","
    THEN <<s>>
    ELSE LET i == CHOOSE j \in 1..Len(s) :
                      s[j] = "," /\ \A k \in 1..(j-1) : s[k] /= ","
         IN  <<SubSeq(s, 1, i-1)>> \o Split(SubSeq(s, i+1, Len(s)))

RECURSIVE LStrip(_)
LStrip(s) ==
    IF s /= <<>> /\ Head(s) \in Whitespace THEN LStrip(Tail(s)) ELSE s

RECURSIVE RStrip(_)
RStrip(s) ==
    IF s /= <<>> /\ s[Len(s)] \in Whitespace
    THEN RStrip(SubSeq(s, 1, Len(s)-1))
    ELSE s

\* item.strip()
Strip(s) == RStrip(LStrip(s))

\* _parse_allowed with the emptiness test kept but the entries left untrimmed.
_parse_allowed_untrimmed(env_value) ==
    LET raw == IF TruthyStr(env_value) THEN env_value ELSE DefaultAllowedRaw
        items == Split(raw)
    IN  {items[i] : i \in {j \in 1..Len(items) : Strip(items[j]) /= <<>>}}

\* _parse_allowed(env_value)
_parse_allowed(env_value) ==
    LET raw == IF TruthyStr(env_value) THEN env_value ELSE DefaultAllowedRaw
        items == Split(raw)
    IN  {Strip(items[i]) : i \in {j \in 1..Len(items) : Strip(items[j]) /= <<>>}}

-----------------------------------------------------------------------------
(* _map_status *)

\* HEALTH_MAP with "paused" mapped like "running".
HEALTH_MAP_paused_active(state) ==
    CASE state \in {"running", "paused"} -> "active"
      [] state \in {"created", "removing", "exited"} -> "inactive"
      [] state = "restarting" -> "activating"
      [] state = "dead" -> "failed"
      [] OTHER -> "unknown"

\* HEALTH_MAP.get(state, "unknown")
HEALTH_MAP(state) ==
    CASE state = "running" -> "active"
      [] state = "created" -> "inactive"
      [] state = "restarting" -> "activating"
      [] state = "removing" -> "inactive"
      [] state = "paused" -> "inactive"
      [] state = "exited" -> "inactive"
      [] state = "dead" -> "failed"
      [] OTHER -> "unknown"

\* _map_status with the health consulted for recognized states only.
_map_status_known_states_only(state, health) ==
    LET mapped == HEALTH_MAP(state)
    IN  IF mapped = "unknown" THEN mapped
        ELSE IF Truthy(health) /\ health = "healthy" THEN "active"
        ELSE IF Truthy(health) /\ health = "unhealthy" THEN "failed"
        ELSE mapped

\* _map_status(state, health)
_map_status(state, health) ==
    LET mapped == HEALTH_MAP(state)
    IN  IF Truthy(health) /\ health = "healthy" THEN "active"
        ELSE IF Truthy(health) /\ health = "unhealthy" THEN "failed"
        ELSE mapped

-----------------------------------------------------------------------------
(* Inputs and bounds *)

\* The longest SB_ALLOWED value tried, counted in tokens.
MaxTokens == 3

\* The pieces SB_ALLOWED values are built from.
Tokens == {<<",">>, <<" ">>, sonarr, <<"x">>}

RECURSIVE TokenStrings(_)
\* Every concatenation of at most n tokens.
TokenStrings(n) ==
    IF n = 0 THEN {<<>>}
    ELSE LET shorter == TokenStrings(n-1)
         IN  shorter \cup {s \o t : s \in shorter, t \in Tokens}

\* The values SB_ALLOWED may have at startup.
EnvValues == {NoEnv} \cup TokenStrings(MaxTokens)

\* The keys and actions clients send.
RequestKeys == {sonarr, radarr, ghost}
RequestActions == {"start", "stop", "restart", "pause"}

\* The container names other actors on the runtime create and remove.
Hosted == {sonarr, radarr}

\* What the runtime reports as c.status and as State.Health.Status.
RuntimeStatuses ==
    {"running", "created", "restarting", "removing", "paused", "exited", "dead",
     "weird", "", None}
RuntimeHealths == {"healthy", "unhealthy", "starting", "", None}

\* e.explanation of an APIError.
Explanations == {"conflict", "", None}

-----------------------------------------------------------------------------
(* The container runtime, as docker_client sees it *)

Reply(kind, status, health, explanation) ==
    [kind |-> kind, status |-> status, health |-> health,
     explanation |-> explanation]

\* The daemon answers with an error status: docker.errors.APIError.
APIErrors == {Reply("APIError", None, None, e) : e \in Explanations}

\* The call dies below the API (socket timeout, connection refused): an
\* exception that is not an APIError.
TransportErrors == {Reply("TransportError", None, None, None)}

\* docker.errors.NotFound, which is a subclass of APIError.
NotFoundReply == Reply("NotFound", None, None, "No such container")

\* docker_client.containers.get(name)
GetReplies(name) ==
    (IF name \in present
     THEN {Reply("Container", s, h, None) :
               s \in RuntimeStatuses, h \in RuntimeHealths}
     ELSE {NotFoundReply})
    \cup APIErrors \cup TransportErrors

\* docker_client.containers.get(name) as service_action() sees it: the
\* handler reads no attribute of the handle, so containers that differ only
\* in status and health are one answer.
HandleReplies(name) ==
    {[r EXCEPT !.status = None, !.health = None] : r \in GetReplies(name)}

\* c.start(), c.stop(), c.restart() on a handle obtained earlier
OpReplies(name) ==
    (IF name \in present
     THEN {Reply("Done", None, None, None)}
     ELSE {NotFoundReply})
    \cup APIErrors \cup TransportErrors

\* except APIError: catches APIError and its subclass NotFound.
IsAPIError(reply) == reply.kind \in {"APIError", "NotFound"}

\* One entry of the record of runtime calls: the call, its target, whether
\* the target existed when the call was made, and the answer.
Call(op, name, existed, reply) ==
    [op |-> op, name |-> name, existed |-> existed, reply |-> reply]

-----------------------------------------------------------------------------
(* Responses *)

NoReq ==
    [route |-> "none", key |-> <<>>, action |-> "", name |-> <<>>,
     idx |-> 0, out |-> <<>>]

NoResponse == [code |-> 0, kind |-> "none", body |-> <<>>]

Message(text, action, subject, detail) ==
    [text |-> text, action |-> action, subject |-> subject, detail |-> detail]

\* _json_error(status_code, message)
_json_error(status_code, message) ==
    [code |-> status_code, kind |-> "error",
     body |-> [ok |-> FALSE,
               error |-> [code |-> status_code, message |-> message]]]

\* jsonify(payload), returned with status 200
jsonify(payload) == [code |-> 200, kind |-> "json", body |-> payload]

\* An exception no handler catches: Flask answers 500 with its own page.
Unhandled == [code |-> 500, kind |-> "unhandled", body |-> <<>>]

-----------------------------------------------------------------------------
(* _container_status and GET /api/status *)

\* The raw dict of a container that was not found: {}.
EmptyRaw == <<>>

\* bool(raw) for a dict: only the empty dict is falsy.
RawTruthy(raw) == DOMAIN raw /= {}

\* state or "unknown"
OrUnknown(state) == IF Truthy(state) THEN state ELSE "unknown"

\* _container_status treating a container without a state as not found.
_container_status_stateless_absent(reply) ==
    IF reply.kind = "NotFound" \/ ~Truthy(reply.status)
    THEN <<"unknown", EmptyRaw>>
    ELSE <<_map_status(OrUnknown(reply.status), reply.health),
           [status |-> reply.status, health |-> reply.health]>>

\* _container_status(container_name), given what containers.get answered
\* (NotFound or a container; any other exception passes through the caller).
_container_status(reply) ==
    IF reply.kind = "NotFound"
    THEN <<"unknown", EmptyRaw>>
    ELSE LET state == reply.status
             health == reply.health
             mapped == _map_status(OrUnknown(state), health)
             raw == [status |-> state, health |-> health]
         IN  <<mapped, raw>>

\* status() without the whitelist test.
StatusSkips_never(name) == FALSE

\* status(), line 131: the entry is skipped
StatusSkips(name) == name \notin ALLOWED

\* status(), lines 134-137: the entry written for a key
StatusEntry(mapped, raw) ==
    IF RawTruthy(raw)
    THEN [state |-> mapped, raw |-> raw]
    ELSE [state |-> "unknown"]

\* The loop of status() moves on with `out`; after the last entry the
\* handler returns jsonify(out).
StatusAdvance(out) ==
    IF req.idx = Len(ServiceOrder)
    THEN /\ pc' = "done"
         /\ req' = [req EXCEPT !.out = out]
         /\ response' = jsonify(out)
    ELSE /\ pc' = "status"
         /\ req' = [req EXCEPT !.idx = @ + 1, !.out = out]
         /\ response' = response

\* GET /api/status arrives: out = {} and the loop starts.
status_begin ==
    /\ pc = "idle"
    /\ pc' = "status"
    /\ req' = [NoReq EXCEPT !.route = "status", !.idx = 1]
    /\ calls' = <<>>
    /\ response' = NoResponse
    /\ UNCHANGED <<envValue, ALLOWED, SERVICES, present, nState, nHealth, nResult>>

\* One iteration of the loop of status().
status_iter ==
    /\ pc = "status"
    /\ LET key == ServiceOrder[req.idx]
           name == SERVICES[key].container
       IN  IF StatusSkips(name)
           THEN /\ StatusAdvance(req.out)
                /\ calls' = calls
           ELSE \E reply \in GetReplies(name) :
                  /\ calls' = Append(calls, Call("get", name, name \in present, reply))
                  /\ IF reply.kind \in {"NotFound", "Container"}
                     THEN LET cs == _container_status(reply)
                          IN  StatusAdvance((key :> StatusEntry(cs[1], cs[2])) @@ req.out)
                     ELSE /\ pc' = "done"
                          /\ req' = req
                          /\ response' = Unhandled
    /\ UNCHANGED <<envValue, ALLOWED, SERVICES, present, nState, nHealth, nResult>>

-----------------------------------------------------------------------------
(* POST /api/service/<key>/<action> *)

ValidActions == {"restart", "start", "stop"}

\* service_action() without the whitelist test.
ActionForbidden_never(name) == FALSE

\* service_action(), line 159: the container is refused
ActionForbidden(name) == name \notin ALLOWED

\* e.explanation or str(e)
Diagnostic(reply) ==
    IF Truthy(reply.explanation) THEN reply.explanation ELSE "str(e)"

\* The request ends with `resp`.
Respond(resp) ==
    /\ pc' = "done"
    /\ response' = resp

\* service_action(), lines 151-160: the checks made before the runtime is
\* contacted.
service_action_begin ==
    /\ pc = "idle"
    /\ \E key \in RequestKeys, action \in RequestActions :
         LET known == key \in DOMAIN SERVICES
             name == IF known THEN SERVICES[key].container ELSE <<>>
             r == [NoReq EXCEPT !.route = "action", !.key = key,
                                !.action = action]
         IN  IF action \notin ValidActions
             THEN /\ Respond(_json_error(400,
                       Message("Invalid action (allowed: start, stop, restart).",
                               "", <<>>, "")))
                  /\ req' = r
             ELSE IF ~known
             THEN /\ Respond(_json_error(404,
                       Message("Unknown service key", "", key, "")))
                  /\ req' = r
             ELSE IF ActionForbidden(name)
             THEN /\ Respond(_json_error(403,
                       Message("Container is not allowed.", "", name, "")))
                  /\ req' = [r EXCEPT !.name = name]
             ELSE /\ pc' = "action_get"
                  /\ response' = NoResponse
                  /\ req' = [r EXCEPT !.name = name]
    /\ calls' = <<>>
    /\ UNCHANGED <<envValue, ALLOWED, SERVICES, present, nState, nHealth, nResult>>

\* service_action(), lines 162-165: c = docker_client.containers.get(name)
service_action_get ==
    /\ pc = "action_get"
    /\ \E reply \in HandleReplies(req.name) :
         /\ calls' = Append(calls, Call("get", req.name, req.name \in present, reply))
         /\ IF reply.kind = "NotFound"
            THEN Respond(_json_error(404,
                     Message("Container not found.", "", req.name, "")))
            ELSE IF reply.kind = "Container"
            THEN /\ pc' = "action_op"
                 /\ response' = response
            ELSE Respond(Unhandled)
    /\ UNCHANGED <<envValue, ALLOWED, SERVICES, present, req, nState, nHealth, nResult>>

\* service_action(), lines 167-179: the start/stop/restart call, the sleep
\* and the answer.
service_action_op ==
    /\ pc = "action_op"
    /\ \E reply \in OpReplies(req.name) :
         /\ calls' = Append(calls, Call(req.action, req.name, req.name \in present, reply))
         /\ IF reply.kind = "Done"
            THEN Respond(jsonify([ok |-> TRUE]))
            ELSE IF IsAPIError(reply)
            THEN Respond(_json_error(502,
                     Message("Docker API error while", req.action, req.name,
                             Diagnostic(reply))))
            ELSE Respond(Unhandled)
    /\ UNCHANGED <<envValue, ALLOWED, SERVICES, present, req, nState, nHealth, nResult>>

-----------------------------------------------------------------------------
(* GET /api/sysinfo *)

\* How the host reads of sysinfo() can end.
SysinfoOutcomes ==
    {"disk_missing", "disk_error", "ramcpu_error", "ok", "ok_no_load"}

\* sysinfo(), whole: it touches neither the runtime nor the configuration.
sysinfo ==
    /\ pc = "idle"
    /\ \E o \in SysinfoOutcomes :
         /\ req' = [NoReq EXCEPT !.route = "sysinfo"]
         /\ IF o = "disk_missing"
            THEN Respond(_json_error(500,
                     Message("Host filesystem mount not found", "", <<>>, "")))
            ELSE IF o = "disk_error"
            THEN Respond(_json_error(500,
                     Message("Failed to read disk usage", "", <<>>, "")))
            ELSE IF o = "ramcpu_error"
            THEN Respond(_json_error(500,
                     Message("Failed to read RAM/CPU stats", "", <<>>, "")))
            ELSE Respond(jsonify([disk |-> "du", ram |-> "vm",
                                  cpu |-> IF o = "ok" THEN "loads" ELSE "null"]))
    /\ calls' = <<>>
    /\ UNCHANGED <<envValue, ALLOWED, SERVICES, present, nState, nHealth, nResult>>

-----------------------------------------------------------------------------
(* The rest of the world *)

\* The response is sent; the worker is free for the next request.
request_done ==
    /\ pc = "done"
    /\ pc' = "idle"
    /\ req' = NoReq
    /\ calls' = <<>>
    /\ response' = NoResponse
    /\ UNCHANGED <<envValue, ALLOWED, SERVICES, present, nState, nHealth, nResult>>

\* Another actor on the runtime creates or removes a container, at any
\* moment, also between two runtime calls of one request.
runtime_change ==
    /\ \E n \in Hosted :
         present' = IF n \in present THEN present \ {n} ELSE present \cup {n}
    /\ UNCHANGED <<envValue, ALLOWED, SERVICES, pc, req, calls, response,
                   nState, nHealth, nResult>>

-----------------------------------------------------------------------------
(* The server *)

\* The normalizer harness has not computed a result.
Pending == "<pending>"

\* Module import: ALLOWED and SERVICES are built, no request is in flight.
Init ==
    /\ envValue \in EnvValues
    /\ ALLOWED = _parse_allowed(envValue)
    /\ SERVICES = ServicesTable
    /\ present \in SUBSET Hosted
    /\ pc = "idle"
    /\ req = NoReq
    /\ calls = <<>>
    /\ response = NoResponse
    /\ nState = None
    /\ nHealth = None
    /\ nResult = Pending

Next ==
    \/ status_begin
    \/ status_iter
    \/ service_action_begin
    \/ service_action_get
    \/ service_action_op
    \/ sysinfo
    \/ request_done
    \/ runtime_change

Spec == Init /\ [][Next]_vars

-----------------------------------------------------------------------------
(* The normalizer on its own *)

\* The arguments _map_status is tried on.
LifecycleInputs ==
    {"running", "created", "restarting", "removing", "paused", "exited", "dead",
     "unknown", "weird", "Running", "healthy", ""}
HealthInputs == {"healthy", "unhealthy", "starting", "Healthy", "", None}

InitNormalize ==
    /\ envValue = NoEnv
    /\ ALLOWED = _parse_allowed(envValue)
    /\ SERVICES = ServicesTable
    /\ present = {}
    /\ pc = "idle"
    /\ req = NoReq
    /\ calls = <<>>
    /\ response = NoResponse
    /\ nState \in LifecycleInputs
    /\ nHealth \in HealthInputs
    /\ nResult = Pending

\* A call of _map_status(nState, nHealth).
map_status_call ==
    /\ nResult = Pending
    /\ nResult' = _map_status(nState, nHealth)
    /\ UNCHANGED <<envValue, ALLOWED, SERVICES, present, pc, req, calls,
                   response, nState, nHealth>>

NextNormalize == map_status_call

SpecNormalize == InitNormalize /\ [][NextNormalize]_vars

-----------------------------------------------------------------------------
(* Vocabulary of the properties *)

\* The status normalizer as the design states it: the baseline table ...
Baseline(state) ==
    IF state = "running" THEN "active"
    ELSE IF state \in {"created", "removing", "paused", "exited"} THEN "inactive"
    ELSE IF state = "restarting" THEN "activating"
    ELSE IF state = "dead" THEN "failed"
    ELSE "unknown"

\* ... and the override by a terminal health value.
Normalize(state, health) ==
    IF health = "healthy" THEN "active"
    ELSE IF health = "unhealthy" THEN "failed"
    ELSE Baseline(state)

NormalizedStatus == {"active", "inactive", "activating", "failed", "unknown"}

\* The registry keys whose container is whitelisted.
WhitelistedKeys == {k \in DOMAIN SERVICES : SERVICES[k].container \in ALLOWED}

\* The registry key a runtime call was made for.
KeyOf(name) == CHOOSE k \in DOMAIN SERVICES : SERVICES[k].container = name

ActionDone == pc = "done" /\ req.route = "action"
StatusDone == pc = "done" /\ req.route = "status"

\* The calls of the request in flight that are start/stop/restart calls.
OpCalls == {i \in 1..Len(calls) : calls[i].op /= "get"}

\* A runtime call ended in an exception other than NotFound on a lookup.
Failed(call) ==
    \/ call.reply.kind \in {"APIError", "TransportError"}
    \/ call.op /= "get" /\ call.reply.kind = "NotFound"

\* The whitelist entries of a configuration string, read off the string:
\* the non-empty pieces raw[a..b] that start and end with a non-blank, hold
\* no comma, and are padded by blanks only up to the neighbouring commas
\* (or the ends of the string).
Entries(raw) ==
    LET n == Len(raw)
        Blank(i, j) == \A k \in i..j : raw[k] \in Whitespace
        Bounded(i, j) ==
            /\ i = 1 \/ raw[i-1] = ","
            /\ j = n \/ raw[j+1] = ","
            /\ \A k \in i..j : raw[k] /= ","
    IN  {SubSeq(raw, p[1], p[2]) :
            p \in {q \in (1..n) \X (1..n) :
                     /\ q[1] <= q[2]
                     /\ raw[q[1]] \notin Whitespace
                     /\ raw[q[2]] \notin Whitespace
                     /\ \E i \in 1..q[1], j \in q[2]..n :
                          /\ Bounded(i, j)
                          /\ Blank(i, q[1]-1)
                          /\ Blank(q[2]+1, j)}}

DefaultWhitelist ==
    {qbittorrent, prowlarr, sonarr, radarr, joal, syncthing, caddy, auth, vpn}

-----------------------------------------------------------------------------
(* Properties *)

\* C1: a finished action request answers 400 for an invalid action, else 404
\* for an unknown key, else 403 for a container outside the whitelist, else
\* 404 when the container is absent, else 502 when the runtime operation
\* fails, else 200 with {ok: true}.
C1_DispatchOrder ==
    ActionDone =>
        LET known == req.key \in DOMAIN SERVICES
            expected ==
                IF req.action \notin {"start", "stop", "restart"} THEN 400
                ELSE IF ~known THEN 404
                ELSE IF SERVICES[req.key].container \notin ALLOWED THEN 403
                ELSE IF ~calls[1].existed THEN 404
                ELSE IF \E i \in 1..Len(calls) : Failed(calls[i]) THEN 502
                ELSE 200
        IN  /\ response.code = expected
            /\ expected = 200 => response.kind = "json" /\ response.body = [ok |-> TRUE]

\* C2: the status document holds exactly the registry keys whose container is
\* whitelisted; while it is built it holds no other key, and the runtime is
\* queried for whitelisted containers only.
C2_StatusOnlyWhitelisted ==
    req.route = "status" =>
        /\ DOMAIN req.out \subseteq WhitelistedKeys
        /\ \A i \in 1..Len(calls) : calls[i].name \in ALLOWED
        /\ (pc = "done" /\ response.code = 200) =>
               DOMAIN response.body = WhitelistedKeys

\* C2 witness: a document was returned that holds sonarr and leaves out
\* radarr, a registry key outside the whitelist, which was never queried.
C2_Witness ==
    /\ StatusDone
    /\ response.code = 200
    /\ radarr \notin ALLOWED
    /\ sonarr \in DOMAIN response.body
    /\ radarr \notin DOMAIN response.body
    /\ Len(calls) = 1

\* C3: a status request always ends with 200 and a document that has an entry
\* for every whitelisted key, the entry of a key whose runtime query failed
\* being {state: "unknown"}.
C3_StatusIsolatesFailures ==
    StatusDone =>
        /\ response.code = 200
        /\ response.kind = "json"
        /\ DOMAIN response.body = WhitelistedKeys
        /\ \A i \in 1..Len(calls) :
               Failed(calls[i]) =>
                   response.body[KeyOf(calls[i].name)] = [state |-> "unknown"]

\* C4: a finished action request answers 200 or one of 400, 403, 404, 502,
\* and when the start/stop/restart call failed it answers 502 with the error
\* envelope carrying the runtime's diagnostic text.
C4_RuntimeFailuresClassified ==
    ActionDone =>
        /\ response.code \in {200, 400, 403, 404, 502}
        /\ \A i \in OpCalls :
               Failed(calls[i]) =>
                   /\ response.code = 502
                   /\ response.kind = "error"
                   /\ response.body.ok = FALSE
                   /\ response.body.error.code = 502
                   /\ response.body.error.message.detail = Diagnostic(calls[i].reply)

\* C5: with health "healthy" the normalizer answers "active" and with health
\* "unhealthy" it answers "failed", whatever the lifecycle state.
C5_HealthOverrides ==
    nResult /= Pending =>
        /\ nHealth = "healthy" => nResult = "active"
        /\ nHealth = "unhealthy" => nResult = "failed"

\* C5 witness: "healthy" has overridden a state whose baseline is "failed".
C5_Witness ==
    nState = "dead" /\ nHealth = "healthy" /\ nResult = "active"

\* C6: with a health that is absent, empty or neither "healthy" nor
\* "unhealthy" the normalizer answers the baseline of the lifecycle state,
\* and its answer is always one of the five normalized statuses.
C6_BaselineWithoutTerminalHealth ==
    nResult /= Pending =>
        /\ nResult \in NormalizedStatus
        /\ nHealth \notin {"healthy", "unhealthy"} => nResult = Baseline(nState)

\* C6 witness: health "starting" left the baseline of "restarting" in place.
C6_Witness ==
    nState = "restarting" /\ nHealth = "starting" /\ nResult = "activating"

\* C7: in the status document being built, the entry of a queried container
\* that is absent is exactly {state: "unknown"}, and the entry of one that
\* exists is {state: normalize(status, health), raw: {status, health}} for the
\* status and health the runtime reported.
C7_StatusEntries ==
    req.route = "status" =>
        /\ \A i \in 1..Len(calls) :
               LET call == calls[i]
                   k == KeyOf(call.name)
               IN  /\ call.reply.kind = "NotFound" =>
                          /\ k \in DOMAIN req.out
                          /\ req.out[k] = [state |-> "unknown"]
                   /\ call.reply.kind = "Container" =>
                          /\ k \in DOMAIN req.out
                          /\ req.out[k] =
                                 [state |-> Normalize(call.reply.status, call.reply.health),
                                  raw |-> [status |-> call.reply.status,
                                           health |-> call.reply.health]]
        /\ (pc = "done" /\ response.code = 200) => response.body = req.out

\* C7 witness: a returned document with an absent container and a container
\* that reported neither a state nor a health.
C7_Witness ==
    /\ StatusDone
    /\ response.code = 200
    /\ \E i, j \in 1..Len(calls) :
         /\ calls[i].reply.kind = "NotFound"
         /\ calls[j].reply.kind = "Container"
         /\ calls[j].reply.status = None
         /\ calls[j].reply.health = None
         /\ "raw" \in DOMAIN response.body[KeyOf(calls[j].name)]

\* C8: an action request whose container did not exist when the runtime was
\* last called for it never ends with 502 or success, and ends with 404
\* whenever the runtime reported the container missing.
C8_AbsentContainerIsNotFound ==
    (ActionDone /\ calls /= <<>> /\ ~calls[Len(calls)].existed) =>
        /\ response.code \notin {200, 502}
        /\ calls[Len(calls)].reply.kind = "NotFound" => response.code = 404

\* C9: within an action request the runtime is called only after the action,
\* key and whitelist checks passed; every call targets the container the key
\* resolves to; there is one lookup at most, one start/stop/restart call at
\* most, it is the call the action names, and no call follows a failed one.
C9_SingleShotRelay ==
    (req.route = "action" /\ calls /= <<>>) =>
        /\ req.action \in {"start", "stop", "restart"}
        /\ req.key \in DOMAIN SERVICES
        /\ SERVICES[req.key].container \in ALLOWED
        /\ \A i \in 1..Len(calls) :
               /\ calls[i].name = SERVICES[req.key].container
               /\ calls[i].op = IF i = 1 THEN "get" ELSE req.action
               /\ (Failed(calls[i]) \/ calls[i].reply.kind = "NotFound") => i = Len(calls)
        /\ Len(calls) <= 2

\* C9 witness: a request whose start/stop/restart call failed has ended
\* with 502 after exactly one lookup and one call.
C9_Witness ==
    /\ ActionDone
    /\ Len(calls) = 2
    /\ Failed(calls[2])
    /\ response.code = 502

\* C10: the whitelist is the set of trimmed, non-empty comma-separated
\* entries of the configuration string, or the built-in default when the
\* string is absent or empty, and no step changes the whitelist or the
\* registry.
C10_WhitelistParsedAndFrozen ==
    /\ [](ALLOWED = IF envValue = NoEnv \/ envValue = <<>>
                    THEN DefaultWhitelist
                    ELSE Entries(envValue))
    /\ [][ALLOWED' = ALLOWED /\ SERVICES' = SERVICES]_vars

\* C10 witness: the string " sonarr," gave the whitelist {sonarr}, and an
\* action request on sonarr has run to its end.
C10_Witness ==
    /\ envValue = <<" ">> \o sonarr \o <<",">>
    /\ ALLOWED = {sonarr}
    /\ ActionDone
    /\ response.code = 200

====
